---- MODULE Spec2Model ----
(***************************************************************************)
(* Model of the fair max-min diversification core:                         *)
(*   mult_weight_upd  (multiplicative-weights fractional solver) and       *)
(*   epsilon_falloff  (gamma falloff driver)                               *)
(* in both source variants: src/fmmdmwu_nyoom.py ("nyoom") and             *)
(* src/TODELETE/multweights.py ("legacy").                                 *)
(*                                                                         *)
(* Arithmetic is exact: a real x is kept as a fraction of integers.        *)
(*   gamma      = gNum / gDen                                              *)
(*   h[i]       = hNum[i] / hDen        (one common denominator)           *)
(*   epsilon    = epsNum / epsDen, falloff_epsilon = feNum / feDen,        *)
(*   percent_theoretical_limit = alNum / alDen                             *)
(* Features are one-dimensional (an N x 1 feature matrix), so the          *)
(* Euclidean distance of two points is Abs(p_i - p_j).  Point indices run  *)
(* 1..N here (0..N-1 in the source); the order of indices is the same.     *)
(***************************************************************************)
EXTENDS Integers, Sequences, FiniteSets, TLC

VARIABLES
    inp,        \* the arguments of epsilon_falloff (fixed during a run)
    dpc,        \* position of epsilon_falloff
    gNum, gDen, \* gamma
    tried,      \* history: the gammas passed to mult_weight_upd, in order
    outcomes,   \* history: how each finished call ended: "None", "X" or "raised"
    builders,   \* history: who built a spatial index over features, in order
    treeAlive,  \* the index the queries go to exists
    deadQuery,  \* history: a query was sent to an index that does not exist
    mpc,        \* position of mult_weight_upd
    exc,        \* the exception raised, "" when none
    t, tBound,  \* the loop variable t of mult_weight_upd, and whether it is bound
    hNum, hDen, \* the weight vector h
    X,          \* the accumulator X
    wait,       \* nextSolutionCheckWait
    ret,        \* what mult_weight_upd returned
    iters,      \* history: loop iterations executed by the current call
    checks,     \* history: early-stop checks performed by the current call
    sawInf,     \* history: some executed iteration of this call had W >= 1
    ballQ,      \* history: ball-count queries of the current call
    hPrev,      \* history: h at the start of the last iteration
    Xprev,      \* history: X at the start of the last iteration
    lastWs,     \* history: w_sums of the last iteration
    lastSel,    \* history: min_indecies per color of the last iteration
    lastS,      \* history: S (center list, as point indices) of the last iteration
    lastCs      \* history: ball counts Cs of the last iteration

vars == <<inp, dpc, gNum, gDen, tried, outcomes, builders, treeAlive, deadQuery, mpc, exc,
          t, tBound, hNum, hDen, X, wait, ret, iters, checks, sawInf, ballQ,
          hPrev, Xprev, lastWs, lastSel, lastS, lastCs>>

(***************************************************************************)
(* Bounds of the model.                                                    *)
(***************************************************************************)
\* falloff steps the driver may take before the model stops following it
MaxFalloff == 4

(***************************************************************************)
(* Program constants.                                                      *)
(***************************************************************************)
WaitLo == 9
WaitHiExcl == 29
Warmup == 100
LegacyCheckPeriod == 50

(***************************************************************************)
(* Arithmetic helpers.                                                     *)
(***************************************************************************)
Abs(x) == IF x < 0 THEN -x ELSE x

RECURSIVE GCD(_, _)
GCD(a, b) == IF b = 0 THEN Abs(a) ELSE GCD(b, a % b)

RECURSIVE SumSeq(_)
SumSeq(s) == IF s = <<>> THEN 0 ELSE Head(s) + SumSeq(Tail(s))

RECURSIVE GCDSeq(_)
GCDSeq(s) == IF s = <<>> THEN 0 ELSE GCD(Head(s), GCDSeq(Tail(s)))

Range(s) == {s[i] : i \in DOMAIN s}

\* ceil(x / y) for x >= 0, y > 0
CeilDiv(x, y) == (x + y - 1) \div y

\* the fraction num[i] / den in lowest terms (same value, smaller integers)
Reduce(num, den) ==
    LET g == GCD(GCDSeq(num), den)
    IN  IF g = 0 THEN [num |-> num, den |-> den]
        ELSE [num |-> [i \in DOMAIN num |-> num[i] \div g], den |-> den \div g]

\* math.log(N, math.e), in thousandths
Ln(n) == CASE n = 1 -> 0
           [] n = 2 -> 693
           [] n = 3 -> 1099
           [] n = 4 -> 1386
           [] n = 5 -> 1609
           [] n = 6 -> 1792

(***************************************************************************)
(* The inputs of a run.                                                    *)
(***************************************************************************)
In(variant, pts, col, kis, gU, feNum, feDen, epsNum, epsDen, alNum, alDen) ==
    [variant |-> variant, pts |-> pts, col |-> col, kis |-> kis, gU |-> gU,
     feNum |-> feNum, feDen |-> feDen, epsNum |-> epsNum, epsDen |-> epsDen,
     alNum |-> alNum, alDen |-> alDen]

KI(c, n) == [color |-> c, n |-> n]

Variants == {"nyoom", "legacy"}

\* inputs that satisfy the documented preconditions
ValidInputs ==
    \* two colors, k = 2 < N = 3
    { In(v, <<0, 1, 4>>, <<"r", "b", "b">>, <<KI("r", 1), KI("b", 1)>>,
         4, 1, 2, 1, 2, 1, 20) : v \in Variants }
    \cup
    \* every point requested: K(c) = |I_c| for every color, k = N
    { In(v, <<0, 2, 4>>, <<"r", "b", "b">>, <<KI("r", 1), KI("b", 2)>>,
         4, 1, 2, 1, 2, 1, 20) : v \in Variants }
    \cup
    \* two coincident points and one distinct point, one color, k = 2 < N
    { In(v, <<0, 0, 3>>, <<"a", "a", "a">>, <<KI("a", 2)>>,
         4, 1, 2, 1, 2, 1, 20) : v \in Variants }
    \cup
    \* two coincident points of one color, both requested, and a third point of
    \* another color that is not requested: k = 2 < N = 3
    { In(v, <<0, 0, 3>>, <<"a", "a", "b">>, <<KI("a", 2)>>,
         4, 1, 2, 1, 2, 1, 20) : v \in Variants }
    \cup
    \* k = 1 (mu = 0)
    { In(v, <<0, 2>>, <<"a", "a">>, <<KI("a", 1)>>,
         4, 1, 2, 1, 2, 1, 1) : v \in Variants }
    \cup
    \* N = 1 (ln N = 0)
    { In(v, <<0>>, <<"a">>, <<KI("a", 1)>>,
         4, 1, 2, 1, 2, 1, 1) : v \in Variants }
    \cup
    \* equal w_sum values inside one color: points 1 and 2 tie, point 3 is smaller
    { In("nyoom", <<0, 10, 20, 1, 11>>, <<"A", "A", "A", "B", "B">>,
         <<KI("A", 2), KI("B", 1)>>, 4, 1, 4, 1, 2, 1, 40) }
    \cup
    \* a close pair that must both be taken: feasible for five iterations at
    \* gamma_upper, then W >= 1
    { In("nyoom", <<0, 1, 10, 20, 30, 40>>, <<"A", "A", "B", "B", "B", "B">>,
         <<KI("A", 2), KI("B", 1)>>, 2, 1, 2, 1, 2, 1, 25),
      In("legacy", <<0, 1, 10, 20, 30, 40>>, <<"A", "A", "B", "B", "B", "B">>,
         <<KI("A", 2), KI("B", 1)>>, 2, 1, 2, 1, 2, 1, 1) }
    \cup
    \* a long solve: ceil(T) = 159 iterations at gamma_upper
    { In("nyoom", <<0, 10, 20>>, <<"a", "a", "a">>, <<KI("a", 2)>>,
         4, 1, 4, 1, 4, 1, 1) }

\* inputs that violate a documented precondition
InvalidInputs ==
    \* K(c) > |I_c|
    { In(v, <<0, 2>>, <<"a", "b">>, <<KI("a", 2)>>,
         4, 1, 2, 1, 2, 1, 20) : v \in Variants }
    \cup
    \* k = 0
    { In(v, <<0, 2>>, <<"a", "b">>, <<>>,
         4, 1, 2, 1, 2, 1, 20) : v \in Variants }
    \cup
    \* N = 0
    { In(v, <<>>, <<>>, <<KI("a", 1)>>,
         4, 1, 2, 1, 2, 1, 20) : v \in Variants }
    \cup
    \* epsilon = 1, outside (0,1)
    { In("nyoom", <<0, 1, 4>>, <<"r", "b", "b">>, <<KI("r", 1), KI("b", 1)>>,
         1, 1, 2, 1, 1, 1, 20) }

Inputs == ValidInputs \cup InvalidInputs

(***************************************************************************)
(* Quantities epsilon_falloff and mult_weight_upd derive from the input.   *)
(***************************************************************************)
\* N = len(features)
NPoints(in) == Len(in.pts)

\* k = sum(kis.values())
KTotal(in) == SumSeq([c \in DOMAIN in.kis |-> in.kis[c].n])

\* mu = k - 1
Mu(in) == KTotal(in) - 1

\* scaled_eps = epsilon / (1.0 + (epsilon / 4.0)) = 4 eps / (4 + eps)
ScaledEpsNum(in) == 4 * in.epsNum
ScaledEpsDen(in) == 4 * in.epsDen + in.epsNum

\* math.ceil(T), T = ((8 * mu) / scaled_eps^2) * ln N * percent_theoretical_limit
\* (the legacy variant has no percent_theoretical_limit: its inputs carry 1/1)
CeilT(in) ==
    IF Mu(in) = 0 THEN 0
    ELSE CeilDiv(8 * Mu(in) * ScaledEpsDen(in) * ScaledEpsDen(in)
                     * Ln(NPoints(in)) * in.alNum,
                 ScaledEpsNum(in) * ScaledEpsNum(in) * 1000 * in.alDen)

\* (color == colors).nonzero()[0]: the indices of a color, ascending
RECURSIVE IndicesFrom(_, _, _)
IndicesFrom(col, c, i) ==
    IF i > Len(col) THEN <<>>
    ELSE IF col[i] = c THEN <<i>> \o IndicesFrom(col, c, i + 1)
         ELSE IndicesFrom(col, c, i + 1)
ColorSumsInd(in, c) == IndicesFrom(in.col, c, 1)

\* the documented preconditions on the input
Valid(in) ==
    /\ NPoints(in) >= 1
    /\ Len(in.kis) >= 1
    /\ \A c \in DOMAIN in.kis :
          /\ in.kis[c].n >= 1
          /\ in.kis[c].n <= Len(ColorSumsInd(in, in.kis[c].color))
    /\ 0 < in.epsNum /\ in.epsNum < in.epsDen
    /\ 0 < in.feNum /\ in.feNum < in.feDen
    /\ in.gU > 0

(***************************************************************************)
(* The two spatial queries.                                                *)
(***************************************************************************)
\* || p_i - p_j || <= gamma / 2.0
Within(in, i, j, gn, gd) == 2 * Abs(in.pts[i] - in.pts[j]) * gd <= gn

\* weighted ball-sum: result[i] = sum of w[j] over the j within gamma/2 of i
RECURSIVE BallSum(_, _, _, _, _, _)
BallSum(in, i, j, gn, gd, w) ==
    IF j > NPoints(in) THEN 0
    ELSE (IF Within(in, i, j, gn, gd) THEN w[j] ELSE 0)
         + BallSum(in, i, j + 1, gn, gd, w)
RunQuery(in, gn, gd, w) ==
    [i \in 1..NPoints(in) |-> BallSum(in, i, 1, gn, gd, w)]

\* ball-count: result[i] = number of rows of S within gamma/2 of point i
RECURSIVE CountRows(_, _, _, _, _, _)
CountRows(in, i, S, r, gn, gd) ==
    IF r > Len(S) THEN 0
    ELSE (IF Within(in, i, S[r], gn, gd) THEN 1 ELSE 0)
         + CountRows(in, i, S, r + 1, gn, gd)
GetCountsInRange(in, S, gn, gd) ==
    [i \in 1..NPoints(in) |-> CountRows(in, i, S, 1, gn, gd)]

(***************************************************************************)
(* The per-color selection of one iteration.                               *)
(***************************************************************************)
Perms(m) == {p \in [1..m -> 1..m] : \A i, j \in 1..m : p[i] = p[j] => i = j}

\* np.argpartition(a, kth) with kth = K - 1: any permutation of the positions
\* of a that puts a K-th smallest value at position K, no larger value before
\* it and no smaller value after it.  The order among equal values is not
\* specified by numpy and depends on the selection kernel of the build, so
\* every permutation with the partition property is a possible outcome.
ArgPartition(a, K) ==
    {p \in Perms(Len(a)) :
        /\ \A i \in 1..(K - 1) : a[p[i]] <= a[p[K]]
        /\ \A i \in (K + 1)..Len(a) : a[p[i]] >= a[p[K]]}

\* color_sums = w_sums[color_sums_ind]
ColorSums(ws, ind) == [j \in 1..Len(ind) |-> ws[ind[j]]]

\* the positions inside the color taken for point indices (the mapping back
\* through color_sums_ind left out)
MinIndeciesUnmapped(ind, partition, K) == [j \in 1..K |-> partition[j]]

\* arg_mins = partition[:K];  min_indecies = color_sums_ind[arg_mins]
MinIndecies(ind, partition, K) == [j \in 1..K |-> ind[partition[j]]]

\* the possible min_indecies of one color
MinIndeciesSet(in, ws, c) ==
    LET ind == ColorSumsInd(in, in.kis[c].color)
    IN  {MinIndecies(ind, p, in.kis[c].n) :
            p \in ArgPartition(ColorSums(ws, ind), in.kis[c].n)}

\* the possible outcomes of the loop over kis.keys(): one min_indecies per color
RECURSIVE ColorLoop(_, _, _)
ColorLoop(in, ws, c) ==
    IF c > Len(in.kis) THEN {<<>>}
    ELSE {<<m>> \o rest : m \in MinIndeciesSet(in, ws, c),
                          rest \in ColorLoop(in, ws, c + 1)}

\* np.argpartition raises ValueError when kth is out of bounds
KthOutOfBounds(in) ==
    \E c \in DOMAIN in.kis :
        in.kis[c].n > Len(ColorSumsInd(in, in.kis[c].color))

\* X[min_indecies] += 1, color after color (an index listed twice gains 1 once)
RECURSIVE AddSelected(_, _)
AddSelected(x, sel) ==
    IF sel = <<>> THEN x
    ELSE AddSelected([i \in DOMAIN x |->
                         IF i \in Range(Head(sel)) THEN x[i] + 1 ELSE x[i]],
                     Tail(sel))

\* S = np.append(S, features[min_indecies]), color after color
RECURSIVE Concat(_)
Concat(sel) == IF sel = <<>> THEN <<>> ELSE Head(sel) \o Concat(Tail(sel))

\* W += np.sum(w_sums[min_indecies]), color after color (numerator over hDen)
WeightOf(ws, sel) == LET S == Concat(sel) IN SumSeq([r \in DOMAIN S |-> ws[S[r]]])

(***************************************************************************)
(* The update of h.                                                        *)
(***************************************************************************)
\* 1 - (scaled_eps / 4.0) * M[i]  with  M[i] = (1.0 / mu) * ((-1 * c) + 1),
\* as the fraction FactorNum / FactorDen
FactorNum(in, c) == 4 * ScaledEpsDen(in) * Mu(in) - ScaledEpsNum(in) * ((-1 * c) + 1)
FactorDen(in) == 4 * ScaledEpsDen(in) * Mu(in)

\* h = h * (1 - (scaled_eps / 4) * M): numerators and the common denominator
ScaleH(in, num, den, Cs) ==
    [num |-> [i \in DOMAIN num |-> num[i] * FactorNum(in, Cs[i])],
     den |-> den * FactorDen(in)]

\* h left as it is after the update (the division by np.sum(h) left out)
NormalizeSkipped(num, den) == Reduce(num, den)

\* h /= np.sum(h):  (num[i]/den) / (sum(num)/den) = num[i] / sum(num)
Normalize(num, den) == Reduce(num, SumSeq(num))

(***************************************************************************)
(* The early-stop check.                                                   *)
(***************************************************************************)
\* not np.any(X_weights > 1 + epsilon), X_weights = run_query(gamma/2, X/(t+1))
SolutionFeasible(in, gn, gd, x, tt) ==
    LET xw == RunQuery(in, gn, gd, x)
    IN  ~ \E i \in 1..NPoints(in) :
             xw[i] * in.epsDen > (tt + 1) * (in.epsDen + in.epsNum)

\* gen.integers(9, 29)
NextSolutionCheckWaits == WaitLo..(WaitHiExcl - 1)

\* gamma * falloff_epsilon (the complement left out)
FalloffGammaByEps(in, gn, gd) == [num |-> gn * in.feNum, den |-> gd * in.feDen]

\* gamma * (1 - falloff_epsilon) as a fraction
FalloffGamma(in, gn, gd) == [num |-> gn * (in.feDen - in.feNum), den |-> gd * in.feDen]

(***************************************************************************)
(* The state machine.                                                      *)
(***************************************************************************)
NoRet == [kind |-> "unset", num |-> <<>>, den |-> 0]
NoneRet == [kind |-> "None", num |-> <<>>, den |-> 0]

Init ==
    /\ inp \in Inputs
    /\ dpc = "entry"
    /\ gNum = 0 /\ gDen = 1
    /\ tried = <<>>
    /\ outcomes = <<>>
    /\ builders = <<>>
    /\ treeAlive = FALSE
    /\ deadQuery = FALSE
    /\ mpc = "idle"
    /\ exc = ""
    /\ t = 0 /\ tBound = FALSE
    /\ hNum = <<>> /\ hDen = 1
    /\ X = <<>>
    /\ wait = 0
    /\ ret = NoRet
    /\ iters = 0 /\ checks = 0 /\ sawInf = FALSE /\ ballQ = 0
    /\ hPrev = [num |-> <<>>, den |-> 1]
    /\ Xprev = <<>>
    /\ lastWs = <<>> /\ lastSel = <<>> /\ lastS = <<>> /\ lastCs = <<>>

solverVars == <<t, tBound, hNum, hDen, X, wait, ret, iters, checks, sawInf, ballQ,
                hPrev, Xprev, lastWs, lastSel, lastS, lastCs>>

\* epsilon_falloff up to its first call of mult_weight_upd: gamma = gamma_upper;
\* the nyoom driver builds the WeightedTree over features, the legacy driver
\* builds nothing
Start ==
    /\ dpc = "entry"
    /\ gNum' = inp.gU /\ gDen' = 1
    /\ builders' = IF inp.variant = "nyoom" THEN <<"driver">> ELSE builders
    /\ treeAlive' = (inp.variant = "nyoom")
    /\ dpc' = "call"
    /\ UNCHANGED <<inp, tried, outcomes, deadQuery, mpc, exc>>
    /\ UNCHANGED solverVars

\* an exception leaves mult_weight_upd and epsilon_falloff (neither catches)
Raise(name) ==
    /\ mpc' = "raised" /\ dpc' = "raised" /\ exc' = name
    /\ outcomes' = Append(outcomes, "raised")

\* mult_weight_upd from its entry to the head of the loop
CallMwu ==
    /\ dpc = "call"
    /\ tried' = Append(tried, [num |-> gNum, den |-> gDen])
    /\ \E w \in (IF inp.variant = "nyoom" THEN NextSolutionCheckWaits ELSE {0}) :
          wait' = w
    /\ IF KTotal(inp) <= 0
       THEN /\ Raise("AssertionError")
            /\ UNCHANGED <<builders, treeAlive, hNum, hDen, X, hPrev, Xprev>>
       ELSE IF NPoints(inp) = 0
       THEN /\ Raise("ZeroDivisionError")
            /\ UNCHANGED <<builders, treeAlive, hNum, hDen, X, hPrev, Xprev>>
       ELSE /\ hNum' = [i \in 1..NPoints(inp) |-> 1]
            /\ hDen' = NPoints(inp)
            /\ X' = [i \in 1..NPoints(inp) |-> 0]
            /\ hPrev' = [num |-> hNum', den |-> hDen']
            /\ Xprev' = X'
            /\ builders' = IF inp.variant = "legacy"
                           THEN Append(builders, "solver") ELSE builders
            /\ treeAlive' = (treeAlive \/ inp.variant = "legacy")
            /\ mpc' = "loop" /\ dpc' = "insolver" /\ exc' = exc
            /\ outcomes' = outcomes
    /\ t' = 0 /\ tBound' = FALSE
    /\ ret' = NoRet
    /\ iters' = 0 /\ checks' = 0 /\ sawInf' = FALSE /\ ballQ' = 0
    /\ lastWs' = <<>> /\ lastSel' = <<>> /\ lastS' = <<>> /\ lastCs' = <<>>
    /\ UNCHANGED <<inp, gNum, gDen, deadQuery>>

\* the value the for statement binds to t next
NextT == IF tBound THEN t + 1 ELSE 0

\* X = X / (t + 1); return X
ReturnX(tt) ==
    /\ ret' = [kind |-> "X", num |-> X', den |-> tt + 1]
    /\ mpc' = "returned"
    /\ outcomes' = Append(outcomes, "X")

\* the loop goes on to its next iteration
Continue == ret' = ret /\ mpc' = "loop" /\ outcomes' = outcomes

\* the early-stop check of the nyoom variant (lines 116-130)
StochasticCheck(tt) ==
    IF tt > Warmup /\ wait = 0
    THEN /\ \E w \in NextSolutionCheckWaits : wait' = w
         /\ checks' = checks + 1
         /\ IF SolutionFeasible(inp, gNum, gDen, X', tt) THEN ReturnX(tt) ELSE Continue
    ELSE /\ wait' = wait - 1
         /\ checks' = checks
         /\ Continue

\* the early-stop check of the legacy variant (lines 95-98)
PeriodicCheck(tt) ==
    /\ wait' = wait
    /\ IF tt % LegacyCheckPeriod = 0
       THEN /\ checks' = checks + 1
            /\ IF SolutionFeasible(inp, gNum, gDen, X', tt) THEN ReturnX(tt) ELSE Continue
       ELSE /\ checks' = checks
            /\ Continue

\* one iteration of the loop of mult_weight_upd
Iteration ==
    /\ dpc = "insolver" /\ mpc = "loop"
    /\ NextT < CeilT(inp)
    /\ t' = NextT /\ tBound' = TRUE
    /\ iters' = iters + 1
    /\ hPrev' = [num |-> hNum, den |-> hDen]
    /\ Xprev' = X
    /\ deadQuery' = (deadQuery \/ ~treeAlive)
    /\ LET ws == RunQuery(inp, gNum, gDen, hNum)
       IN  /\ lastWs' = ws
           /\ IF KthOutOfBounds(inp)
              THEN /\ Raise("ValueError")
                   /\ UNCHANGED <<hNum, hDen, X, wait, ret, checks, sawInf, ballQ,
                                  lastSel, lastS, lastCs>>
              ELSE \E sel \in ColorLoop(inp, ws, 1) :
                   /\ lastSel' = sel
                   /\ lastS' = Concat(sel)
                   /\ X' = AddSelected(X, sel)
                   /\ IF WeightOf(ws, sel) >= hDen
                      THEN \* if W >= 1: return None
                           /\ sawInf' = TRUE
                           /\ ret' = NoneRet /\ mpc' = "returned"
                           /\ outcomes' = Append(outcomes, "None")
                           /\ UNCHANGED <<hNum, hDen, wait, checks, ballQ, lastCs,
                                          dpc, exc>>
                      ELSE LET Cs == GetCountsInRange(inp, Concat(sel), gNum, gDen)
                               sc == ScaleH(inp, hNum, hDen, Cs)
                               nh == Normalize(sc.num, sc.den)
                           IN  /\ sawInf' = sawInf
                               /\ ballQ' = ballQ + 1
                               /\ lastCs' = Cs
                               /\ hNum' = nh.num /\ hDen' = nh.den
                               /\ IF inp.variant = "nyoom"
                                  THEN StochasticCheck(NextT)
                                  ELSE PeriodicCheck(NextT)
                               /\ UNCHANGED <<dpc, exc>>
    /\ UNCHANGED <<inp, gNum, gDen, tried, builders, treeAlive>>

\* the for loop is exhausted: X = X / (t + 1); return X
ExitLoop ==
    /\ dpc = "insolver" /\ mpc = "loop"
    /\ NextT >= CeilT(inp)
    /\ IF tBound
       THEN /\ ret' = [kind |-> "X", num |-> X, den |-> t + 1]
            /\ mpc' = "returned"
            /\ outcomes' = Append(outcomes, "X")
            /\ UNCHANGED <<dpc, exc>>
       ELSE /\ Raise("UnboundLocalError")
            /\ ret' = ret
    /\ UNCHANGED <<inp, gNum, gDen, tried, builders, treeAlive, deadQuery,
                   t, tBound, hNum, hDen, X, wait, iters, checks, sawInf, ballQ,
                   hPrev, Xprev, lastWs, lastSel, lastS, lastCs>>

\* while X is None: gamma = gamma * (1 - falloff_epsilon), and call again
Falloff ==
    /\ dpc = "insolver" /\ mpc = "returned" /\ ret.kind = "None"
    /\ Len(tried) <= MaxFalloff
    /\ LET g == FalloffGamma(inp, gNum, gDen)
       IN  gNum' = g.num /\ gDen' = g.den
    /\ dpc' = "call" /\ mpc' = "idle"
    /\ UNCHANGED <<inp, tried, outcomes, builders, treeAlive, deadQuery, exc>>
    /\ UNCHANGED solverVars

\* X is not None: the nyoom driver deletes its tree; rounding and the
\* statistics are the collaborators' work
Finish ==
    /\ dpc = "insolver" /\ mpc = "returned" /\ ret.kind = "X"
    /\ treeAlive' = IF inp.variant = "nyoom" THEN FALSE ELSE treeAlive
    /\ dpc' = "done" /\ mpc' = "idle"
    /\ UNCHANGED <<inp, gNum, gDen, tried, outcomes, builders, deadQuery, exc>>
    /\ UNCHANGED solverVars

Next == Start \/ CallMwu \/ Iteration \/ ExitLoop \/ Falloff \/ Finish

Spec == Init /\ [][Next]_vars

(***************************************************************************)
(* Vocabulary of the properties.                                           *)
(***************************************************************************)
RECURSIVE Pow(_, _)
Pow(b, e) == IF e = 0 THEN 1 ELSE b * Pow(b, e - 1)

\* a call of mult_weight_upd has ended, by return or by exception
CallEnded == mpc \in {"returned", "raised"}

\* gamma/2 is below every positive distance between two points: only
\* coincident points are within gamma/2 of each other (gamma_trivial is reached)
GammaTrivial ==
    \A i, j \in 1..NPoints(inp) :
        inp.pts[i] # inp.pts[j] => ~Within(inp, i, j, gNum, gDen)

\* K(c) <= |I_c| for every color
QuotasFit(in) ==
    \A c \in DOMAIN in.kis :
        /\ in.kis[c].n >= 1
        /\ in.kis[c].n <= Len(ColorSumsInd(in, in.kis[c].color))

\* the K members of ind with the smallest ws, ties broken by ascending index
SmallestByIndex(ws, ind, K) ==
    {i \in Range(ind) :
        Cardinality({j \in Range(ind) :
                        ws[j] < ws[i] \/ (ws[j] = ws[i] /\ j < i)}) < K}

(***************************************************************************)
(* C1.  For every valid input the falloff loop ends with a non-None X.     *)
(* The spec's progress argument bounds the loop by the falloff steps that  *)
(* bring gamma to gamma_trivial, where the solver must accept: a call      *)
(* made at a gamma at or below gamma_trivial does not return None.  (The   *)
(* solver's verdict depends on gamma only through which pairs of points    *)
(* are within gamma/2, so a None at gamma_trivial repeats at every later   *)
(* gamma and the loop never exits.)                                        *)
(***************************************************************************)
C1_FalloffTerminates ==
    (Valid(inp) /\ GammaTrivial /\ mpc = "returned") => ret.kind = "X"

(***************************************************************************)
(* C2.  Invalid input is rejected at driver entry: on an input that        *)
(* violates a precondition no index is built, mult_weight_upd is never     *)
(* called and no solver iteration runs.                                    *)
(***************************************************************************)
C2_InvalidRejectedAtEntry ==
    ~Valid(inp) => (builders = <<>> /\ tried = <<>> /\ iters = 0)

(***************************************************************************)
(* C3.  On every valid input, a call that ends without an infeasible       *)
(* iteration returns X divided by the number of iterations executed, with  *)
(* every entry in [0, 1] (also when ceil(T) = 0).                          *)
(***************************************************************************)
C3_ReturnsMeanOverExecuted ==
    (Valid(inp) /\ CallEnded /\ ~sawInf) =>
        /\ mpc = "returned"
        /\ ret.kind = "X"
        /\ ret.num = X
        /\ ret.den = iters
        /\ \A i \in DOMAIN ret.num : 0 <= ret.num[i] /\ ret.num[i] <= ret.den

(***************************************************************************)
(* C4.  In every run of the driver (here: on every valid input) the index  *)
(* over features is built exactly once, by the driver, before the first    *)
(* call of mult_weight_upd; no call builds its own; every query goes to an *)
(* index that exists.                                                      *)
(***************************************************************************)
C4_IndexBuiltOnceByDriver ==
    Valid(inp) =>
        /\ Len(builders) <= 1
        /\ tried # <<>> => builders = <<"driver">>
        /\ mpc = "loop" => treeAlive
        /\ ~deadQuery

(***************************************************************************)
(* C5.  The n-th call (n = 0, 1, ...) receives gamma_upper * (1 - fe)^n;   *)
(* the gammas tried are strictly decreasing, so none is tried twice; every *)
(* call before the last returned None, so the loop stops at the first      *)
(* non-None X.                                                             *)
(***************************************************************************)
C5_GammaSequence ==
    /\ \A n \in DOMAIN tried :
          tried[n].num * Pow(inp.feDen, n - 1)
              = inp.gU * Pow(inp.feDen - inp.feNum, n - 1) * tried[n].den
    /\ \A n, m \in DOMAIN tried :
          n < m => tried[m].num * tried[n].den < tried[n].num * tried[m].den
    /\ Len(outcomes) <= Len(tried) /\ Len(tried) <= Len(outcomes) + 1
    /\ \A n \in DOMAIN outcomes : n < Len(tried) => outcomes[n] = "None"
    /\ dpc = "done" => (ret.kind = "X" /\ outcomes[Len(outcomes)] = "X")

\* a run that fell off at least twice, at a rate other than 1/2, and stopped
C5_Witness ==
    /\ dpc = "done" /\ Len(tried) >= 3
    /\ 2 * inp.feNum # inp.feDen

(***************************************************************************)
(* C6.  mult_weight_upd returns None exactly when an executed iteration    *)
(* had W >= 1, and it returns in that iteration, before the ball-count     *)
(* query and before h is updated; in every other case it returns a         *)
(* non-None X.                                                             *)
(***************************************************************************)
C6_NoneIffInfeasible ==
    Valid(inp) =>
        /\ (mpc = "returned" /\ ret.kind = "None") =>
               /\ sawInf
               /\ WeightOf(lastWs, lastSel) >= hDen
               /\ ballQ = iters - 1
               /\ hNum = hPrev.num /\ hDen = hPrev.den
        /\ (CallEnded /\ ~sawInf) => (mpc = "returned" /\ ret.kind = "X")
        /\ (CallEnded /\ sawInf) => (mpc = "returned" /\ ret.kind = "None")

(***************************************************************************)
(* C7.  In the nyoom variant, a call that executes at least 130            *)
(* iterations without an infeasible one has performed at least one         *)
(* early-stop check (all of its checks are at t > 100).                    *)
(***************************************************************************)
C7_CheckAfterWarmup ==
    (inp.variant = "nyoom" /\ iters >= 130 /\ ~sawInf) => checks >= 1

(***************************************************************************)
(* C8.  In every iteration and for every color c the selected indices are  *)
(* the K(c) members of I_c with the smallest w_sum, ties broken by         *)
(* ascending point index.                                                  *)
(***************************************************************************)
C8_TiesByAscendingIndex ==
    (QuotasFit(inp) /\ lastSel # <<>>) =>
        \A c \in DOMAIN inp.kis :
            Range(lastSel[c])
                = SmallestByIndex(lastWs, ColorSumsInd(inp, inp.kis[c].color),
                                  inp.kis[c].n)

(***************************************************************************)
(* C9.  Given K(c) <= |I_c| for every color: in every iteration the        *)
(* selection of each color c is K(c) pairwise distinct indices of I_c; so  *)
(* each X[i] grows by 0 or 1 per iteration and is at most the number of    *)
(* iterations executed, and S has exactly k rows.                          *)
(***************************************************************************)
C9_SelectionShape ==
    (QuotasFit(inp) /\ lastSel # <<>>) =>
        /\ \A c \in DOMAIN inp.kis :
              /\ Len(lastSel[c]) = inp.kis[c].n
              /\ \A a, b \in DOMAIN lastSel[c] :
                    lastSel[c][a] = lastSel[c][b] => a = b
              /\ Range(lastSel[c]) \subseteq
                     Range(ColorSumsInd(inp, inp.kis[c].color))
        /\ \A i \in DOMAIN X :
              /\ X[i] - Xprev[i] \in {0, 1}
              /\ X[i] <= iters
        /\ Len(lastS) = KTotal(inp)

\* a third iteration has selected two points of one color and one of another
C9_Witness ==
    /\ QuotasFit(inp) /\ iters >= 3 /\ Len(lastSel) = 2
    /\ Len(lastSel[1]) = 2
    /\ \E i \in DOMAIN X : X[i] = Xprev[i] + 1
    /\ \E i \in DOMAIN X : X[i] = Xprev[i]

(***************************************************************************)
(* C10.  For epsilon in (0,1] and k >= 2: every ball count c_i is in       *)
(* 0..k, so M[i] is in [-1, 1/(k-1)] and the update factor is positive;    *)
(* h[i] >= 0 always; h starts uniform at 1/N and sums to 1 after the       *)
(* renormalization of every iteration.                                     *)
(***************************************************************************)
C10_WeightsStayDistribution ==
    (/\ 0 < inp.epsNum /\ inp.epsNum <= inp.epsDen
     /\ KTotal(inp) >= 2
     /\ mpc \in {"loop", "returned"}) =>
        /\ \A i \in DOMAIN hNum : hNum[i] >= 0
        /\ hDen > 0
        /\ SumSeq(hNum) = hDen
        /\ iters = 0 => \A i \in DOMAIN hNum : hNum[i] * NPoints(inp) = hDen
        /\ \A i \in DOMAIN lastCs :
              /\ 0 <= lastCs[i] /\ lastCs[i] <= KTotal(inp)
              \* M[i] = (1 - c_i) / mu  in  [-1, 1/(k-1)]
              /\ -Mu(inp) <= 1 - lastCs[i]
              /\ (1 - lastCs[i]) * (KTotal(inp) - 1) <= Mu(inp)
              /\ FactorNum(inp, lastCs[i]) > 0 /\ FactorDen(inp) > 0

\* h has been updated unevenly several times, with a point covered by two centers
C10_Witness ==
    /\ KTotal(inp) >= 2 /\ mpc = "loop" /\ iters >= 3
    /\ \E i \in DOMAIN lastCs : lastCs[i] = 2
    /\ \E i \in DOMAIN lastCs : lastCs[i] = 0
    /\ \E i, j \in DOMAIN hNum : hNum[i] < hNum[j]

====
